---- MODULE Spec2Model ----
(***************************************************************************)
(* The Validity fingerprint driver (libfprint/drivers/validity.c) as a     *)
(* state machine.                                                          *)
(*                                                                         *)
(* The driver is single threaded and every protocol block is a run of      *)
(* blocking libusb_bulk_transfer calls.  One action of the model is one    *)
(* invocation of a driver entry point, of a state handler of a sequential  *)
(* state machine (ssm), of a completion callback, or one iteration of the  *)
(* finger detection loop.  The results of the bulk transfers a block makes *)
(* are the action's input: a script, one result per call.                  *)
(*                                                                         *)
(* C arrays are 0-based, TLA+ sequences 1-based: data[0] of the source is  *)
(* data[1] here, and rr[0x0a] is the 11th element.                         *)
(***************************************************************************)
EXTENDS Integers, Sequences, FiniteSets, TLC

----------------------------------------------------------------------------
(* Bounds of the model *)

\* A session (open .. close) is either one in which the transport misbehaves,
\* at most MaxFaults times in at most MaxActivations activations, or a clean
\* one of up to MaxCleanActivations activations, long enough for the counter
\* to pass 255.
MaxFaults == 1
MaxActivations == 2
MaxCleanActivations == 14
\* iterations of one finger detection loop / asynchronous resubmissions
MaxPoll == 3

----------------------------------------------------------------------------
(* Constants of the program *)

EIO == 5
EPROTO == 71
LIBUSB_ERROR_TIMEOUT == -7
FINGER_PRESENT == 2

M_NEXT_D == 0
M_NEXT_B == 1
M_NEXT_E == 2
M_NEXT_NUM_STATES == 3

M_READ_B == 0
M_READ_2 == 1
M_READ_NUM_STATES == 2

M_LOOP_1 == 0
M_LOOP_READ == 1
M_LOOP_C == 2
M_LOOP_2 == 3
M_LOOP_NEXT == 4
M_LOOP_NUM_STATES == 5

M_INIT_Q == 0
M_INIT_READ == 1
M_INIT_NEXT == 2
M_INIT_NUM_STATES == 3

----------------------------------------------------------------------------
VARIABLES
    opened,        \* dev->priv is allocated: dev_init has run, dev_deinit has not
    activated,     \* dev_activate has been called and dev_deactivate has not
    acts,          \* activations since open
    seqnum,        \* vdev->seqnum
    ssm,           \* the state machines: cur_state, error, completed, allocation
    ctl,           \* where control is
    leaf,          \* the machine whose handler or completion callback runs next
    stack,         \* sub-machines whose __subsm_complete frame has not returned yet
    wire,          \* history: the bulk transfer calls of the last handler or iteration
    hist,          \* history: frames, exchanges and good receives since open
    plan,          \* input: the faults and activations this session will see
    faults,        \* history: faults injected since open
    visited,       \* history: handler invocations since the root machine started
    calls,         \* history: collaborator callbacks since dev_activate
    fd,            \* history of the running finger detection
    xfer           \* the asynchronous finger-state transfer: "none", "pending"
                   \* (submitted) or "completed" (its callback is running)

vars == <<opened, activated, acts, seqnum, ssm, ctl, leaf, stack, wire, hist,
          plan, faults, visited, calls, fd, xfer>>

----------------------------------------------------------------------------
(* libusb_bulk_transfer: its result is an input *)

Nominal == [r |-> 0, short |-> FALSE]

\* r = 0 with fewer bytes than asked for, a timeout, LIBUSB_ERROR_IO (-1)
Faulty == {[r |-> 0, short |-> TRUE],
           [r |-> LIBUSB_ERROR_TIMEOUT, short |-> TRUE],
           [r |-> -1, short |-> TRUE]}

\* the scripts of n results of which at most k are faults
RECURSIVE Scripts(_, _)
Scripts(n, k) ==
    IF n = 0 THEN {<< >>}
    ELSE {<<Nominal>> \o s : s \in Scripts(n - 1, k)}
         \cup (IF k > 0
               THEN {<<f>> \o s : f \in Faulty, s \in Scripts(n - 1, k - 1)}
               ELSE {})

NFaults(script) == Cardinality({i \in DOMAIN script : script[i] # Nominal})

\* the result of the next call and the bytes it reports as transferred
libusb_bulk_transfer(D, len) ==
    LET res == IF D.script = << >> THEN Nominal ELSE Head(D.script)
    IN  [r |-> res.r, transferred |-> IF res.short THEN len - 1 ELSE len]

----------------------------------------------------------------------------
(* lo, hi: bit operations on int *)

RECURSIVE BitAnd(_, _)
BitAnd(a, b) ==
    IF a = 0 \/ b = 0 THEN 0
    ELSE (a % 2) * (b % 2) + 2 * BitAnd(a \div 2, b \div 2)

ShiftRight(n, k) == n \div (2 ^ k)

lo(n) == BitAnd(n, 255)

\* mutant of hi: the mask applied before the shift, (n & 0xff) >> 8
hi_masked_first(n) == ShiftRight(BitAnd(n, 255), 8)

hi(n) == BitAnd(ShiftRight(n, 8), 255)

----------------------------------------------------------------------------
(* Transport.  D is the device as a block sees it: vdev->seqnum, the       *)
(* results still to come, and the history the block leaves behind.         *)

\* frames sent, exchanges and bulk loads made, receives that did not fail,
\* short responses (fewer bytes than asked for, no error), the counter the
\* last frame was stamped with (-1: no frame yet) and the frames stamped with
\* more than their predecessor's stamp plus one
NoHist == [frames |-> 0, exch |-> 0, loads |-> 0, recvok |-> 0,
           shortresp |-> 0, last |-> -1, gaps |-> 0]

Dev(script) ==
    [seqnum |-> seqnum, script |-> script, wire |-> << >>, hist |-> hist,
     blk |-> "-"]

\* mutant of send: the short write is not looked at
send_ignoring_short(D, n, data) ==
    LET len == Len(data)
        buf == [data EXCEPT ![1] = lo(D.seqnum), ![2] = hi(D.seqnum)]
        x   == libusb_bulk_transfer(D, len)
        ret == IF x.r < 0 THEN x.r ELSE 0
    IN  [D EXCEPT
           !.script = IF @ = << >> THEN @ ELSE Tail(@),
           !.hist.frames = @ + 1,
           !.hist.last = D.seqnum,
           !.hist.gaps = IF D.hist.last >= 0 /\ D.seqnum > D.hist.last + 1
                         THEN @ + 1 ELSE @,
           !.wire = Append(@, [fn |-> "send", ep |-> n, len |-> len,
                               r |-> x.r, transferred |-> x.transferred,
                               ret |-> ret, seq0 |-> D.seqnum, data |-> buf,
                               prev |-> D.hist.last,
                               nexch |-> D.hist.exch,
                               nrecvok |-> D.hist.recvok])]

send(D, n, data) ==
    LET len == Len(data)
        buf == [data EXCEPT ![1] = lo(D.seqnum), ![2] = hi(D.seqnum)]
        x   == libusb_bulk_transfer(D, len)
        ret == IF x.r < 0 THEN x.r
               ELSE IF x.transferred < len THEN -EIO
               ELSE 0
    IN  [D EXCEPT
           !.script = IF @ = << >> THEN @ ELSE Tail(@),
           !.hist.frames = @ + 1,
           !.hist.last = D.seqnum,
           !.hist.gaps = IF D.hist.last >= 0 /\ D.seqnum > D.hist.last + 1
                         THEN @ + 1 ELSE @,
           !.wire = Append(@, [fn |-> "send", ep |-> n, len |-> len,
                               r |-> x.r, transferred |-> x.transferred,
                               ret |-> ret, seq0 |-> D.seqnum, data |-> buf,
                               prev |-> D.hist.last,
                               nexch |-> D.hist.exch,
                               nrecvok |-> D.hist.recvok])]

\* mutant of recv: fewer bytes than asked for is an error, as in send
recv_short_is_error(D, n, len) ==
    LET x    == libusb_bulk_transfer(D, len)
        fail == x.r < 0 /\ x.r # -7
        ret  == IF fail THEN x.r
                ELSE IF x.r = 0 /\ x.transferred < len THEN -EIO
                ELSE 0
    IN  [D EXCEPT
           !.script = IF @ = << >> THEN @ ELSE Tail(@),
           !.seqnum = IF ret # 0 THEN @ ELSE @ + 1,
           !.hist.recvok = IF ret = 0 THEN @ + 1 ELSE @,
           !.hist.shortresp = IF x.r = 0 /\ x.transferred < len
                              THEN @ + 1 ELSE @,
           !.wire = Append(@, [fn |-> "recv", ep |-> n, len |-> len,
                               r |-> x.r, transferred |-> x.transferred,
                               ret |-> ret, seq0 |-> D.seqnum,
                               data |-> << >>, prev |-> D.hist.last,
                               nexch |-> D.hist.exch,
                               nrecvok |-> D.hist.recvok])]

\* mutant of recv: a timeout is an error like any other
recv_strict(D, n, len) ==
    LET x    == libusb_bulk_transfer(D, len)
        fail == x.r < 0
        ret  == IF fail THEN x.r ELSE 0
    IN  [D EXCEPT
           !.script = IF @ = << >> THEN @ ELSE Tail(@),
           !.seqnum = IF fail THEN @ ELSE @ + 1,
           !.hist.recvok = IF x.r >= 0 \/ x.r = LIBUSB_ERROR_TIMEOUT
                           THEN @ + 1 ELSE @,
           !.hist.shortresp = IF x.r = 0 /\ x.transferred < len
                              THEN @ + 1 ELSE @,
           !.wire = Append(@, [fn |-> "recv", ep |-> n, len |-> len,
                               r |-> x.r, transferred |-> x.transferred,
                               ret |-> ret, seq0 |-> D.seqnum,
                               data |-> << >>, prev |-> D.hist.last,
                               nexch |-> D.hist.exch,
                               nrecvok |-> D.hist.recvok])]

recv(D, n, len) ==
    LET x    == libusb_bulk_transfer(D, len)
        fail == x.r < 0 /\ x.r # -7
        ret  == IF fail THEN x.r ELSE 0
    IN  [D EXCEPT
           !.script = IF @ = << >> THEN @ ELSE Tail(@),
           !.seqnum = IF fail THEN @ ELSE @ + 1,
           \* history: the receives that did not fail outright
           !.hist.recvok = IF x.r >= 0 \/ x.r = LIBUSB_ERROR_TIMEOUT
                           THEN @ + 1 ELSE @,
           !.hist.shortresp = IF x.r = 0 /\ x.transferred < len
                              THEN @ + 1 ELSE @,
           !.wire = Append(@, [fn |-> "recv", ep |-> n, len |-> len,
                               r |-> x.r, transferred |-> x.transferred,
                               ret |-> ret, seq0 |-> D.seqnum,
                               data |-> << >>, prev |-> D.hist.last,
                               nexch |-> D.hist.exch,
                               nrecvok |-> D.hist.recvok])]

\* mutant of swap: no receive after a transmit that failed
swap_stop_on_send_error(D, data) ==
    LET D1 == send(D, 1, data)
        D2 == IF D1.wire[Len(D1.wire)].ret # 0
              THEN [D1 EXCEPT !.script = IF @ = << >> THEN @ ELSE Tail(@)]
              ELSE recv(D1, 1, 64)
    IN  [D2 EXCEPT !.hist.exch = @ + 1]

\* the results of send and recv are dropped
swap(D, data) ==
    LET D1 == send(D, 1, data)
        D2 == recv(D1, 1, 64)
    IN  [D2 EXCEPT !.hist.exch = @ + 1]

load(D) == [recv(D, 2, 262144) EXCEPT !.hist.loads = @ + 1]

----------------------------------------------------------------------------
(* Command encoder *)

GetVersion(D) == swap(D, <<0, 0, 0, 0, 2, 0, 0>>)

GetParam(D, param) == swap(D, <<0, 0, 0, 0, 4, 0, lo(param), hi(param)>>)

SetParam(D, param, value) ==
    swap(D, <<0, 0, 0, 0, 5, 0, lo(param), hi(param), lo(value), hi(value)>>)

GetConfiguration(D) == swap(D, <<0, 0, 0, 0, 6, 0>>)

AbortPrint(D) == swap(D, <<0, 0, 0, 0, 14, 0>>)

----------------------------------------------------------------------------
(* Protocol blocks *)

Block(name, D) == [D EXCEPT !.blk = name]

\* mutant of do_q: the three transfers of the protocol overview
do_q_three(D) == Block("Q", SetParam(GetVersion(GetVersion(D)), 85, 8))

do_q(D) == Block("Q", SetParam(GetVersion(D), 85, 8))

do_b(D) ==
    LET D1 == GetParam(D, 20)
        D2 == AbortPrint(D1)
        D3 == load(D2)
        D4 == GetParam(D3, 17)
    IN  Block("B", SetParam(D4, 98, 50))

do_c(D) ==
    LET D1 == GetConfiguration(D)
        D2 == GetParam(D1, 46)
        D3 == GetVersion(D2)
        D4 == AbortPrint(D3)
        D5 == SetParam(D4, 85, 8)
        D6 == SetParam(D5, 85, 8)
        D7 == SetParam(D6, 85, 8)
        D8 == GetParam(D7, 20)
        D9 == GetParam(D8, 17)
    IN  Block("C", SetParam(D9, 98, 50))

do_d(D) == Block("D", GetParam(D, 20))

do_e(D) ==
    Block("E", swap(D, <<0, 0, 0, 0, 3, 0, 136, 19, 1, 0, 0, 0, 1, 1>>))

\* a stub: no transfer
do_1(D) == Block("1", D)

do_2(D) ==
    Block("2", load(swap(D, <<0, 0, 0, 0, 3, 0, 20, 0, 0, 1, 0, 0, 0, 1>>)))

----------------------------------------------------------------------------
(* The ssm engine (fpi_ssm_*, libfprint core).  T is [ssm, ctl, leaf,      *)
(* stack].                                                                 *)

Machines == {"init", "loop", "read", "next"}

NoSsm == [cur_state |-> 0, nr_states |-> 0, error |-> 0, completed |-> TRUE,
          alloc |-> "none", parentsm |-> "none", frees |-> 0, cbs |-> 0]

fpi_ssm_new(T, m, nr_states) ==
    [T EXCEPT !.ssm[m] = [NoSsm EXCEPT !.nr_states = nr_states,
                                       !.alloc = "live"]]

fpi_ssm_free(T, m) ==
    [T EXCEPT !.ssm[m].alloc = "freed", !.ssm[m].frees = @ + 1]

\* start: state 0, then the handler is called
fpi_ssm_start(T, m) ==
    [T EXCEPT !.ssm[m].cur_state = 0, !.ssm[m].completed = FALSE,
              !.ssm[m].error = 0, !.leaf = m, !.ctl = "handler"]

fpi_ssm_start_subsm(T, parent, child) ==
    fpi_ssm_start([T EXCEPT !.ssm[child].parentsm = parent], child)

RECURSIVE fpi_ssm_next_state(_, _)
RECURSIVE fpi_ssm_mark_completed(_, _)

\* set the error: the machine is over, its remaining states are skipped
fpi_ssm_mark_aborted(T, m, error) ==
    fpi_ssm_mark_completed([T EXCEPT !.ssm[m].error = error], m)

\* a sub-machine's completion callback: the parent fails with the child's
\* error or advances; the child is freed when that call returns
subsm_complete(T, m) ==
    LET parent == T.ssm[m].parentsm
        T1 == [T EXCEPT !.stack = <<m>> \o @]
    IN  IF T.ssm[m].error # 0
        THEN fpi_ssm_mark_aborted(T1, parent, T.ssm[m].error)
        ELSE fpi_ssm_next_state(T1, parent)

fpi_ssm_mark_completed(T, m) ==
    LET T1 == [T EXCEPT !.ssm[m].completed = TRUE, !.ssm[m].cbs = @ + 1]
    IN  IF T.ssm[m].parentsm # "none"
        THEN subsm_complete(T1, m)
        ELSE [T1 EXCEPT !.leaf = m, !.ctl = "complete"]

fpi_ssm_next_state(T, m) ==
    LET T1 == [T EXCEPT !.ssm[m].cur_state = @ + 1]
    IN  IF T1.ssm[m].cur_state = T1.ssm[m].nr_states
        THEN fpi_ssm_mark_completed(T1, m)
        ELSE [T1 EXCEPT !.leaf = m, !.ctl = "handler"]

\* the frames of the finished sub-machines return, innermost first, each
\* freeing its machine
RECURSIVE Unwind(_)
Unwind(T) ==
    IF T.stack = << >> THEN T
    ELSE Unwind(fpi_ssm_free([T EXCEPT !.stack = Tail(@)], Head(T.stack)))

Engine == [ssm |-> ssm, ctl |-> ctl, leaf |-> leaf, stack |-> stack]

SetEngine(T) ==
    /\ ssm' = T.ssm
    /\ ctl' = T.ctl
    /\ leaf' = T.leaf
    /\ stack' = T.stack

\* what a block leaves behind
SetDev(D) ==
    /\ seqnum' = D.seqnum
    /\ wire' = D.wire
    /\ hist' = D.hist

\* a call of send or recv in the block returned an error
TransportError(w) == \E i \in DOMAIN w : w[i].ret # 0

\* the handler of machine m ran in its current state: the block it made and
\* whether the transport failed in it
Visit(m, blk, err) ==
    visited' = Append(visited, <<m, ssm[m].cur_state, blk, err>>)

Plans == {[faults |-> MaxFaults, acts |-> MaxActivations],
          [faults |-> 0, acts |-> MaxCleanActivations]}

Budget == plan.faults - faults

----------------------------------------------------------------------------
(* State handlers *)

\* a handler that runs block D (made of n bulk transfers) and advances
RunBlock(m, D, script) ==
    /\ SetDev(D)
    /\ faults' = faults + NFaults(script)
    /\ Visit(m, D.blk, TransportError(D.wire))
    /\ SetEngine(fpi_ssm_next_state(Engine, m))
    /\ UNCHANGED <<opened, activated, acts, plan, calls, fd, xfer>>

\* mutant of RunChild: the handler advances its own machine as well
RunChild_advancing(m, child, nr_states) ==
    /\ Visit(m, "-", FALSE)
    /\ SetEngine([fpi_ssm_start_subsm(
                      fpi_ssm_new(Engine, child, nr_states), m, child)
                  EXCEPT !.ssm[m].cur_state = @ + 1])
    /\ UNCHANGED <<opened, activated, acts, seqnum, wire, hist, plan, faults,
                   calls, fd, xfer>>

\* a handler that starts a sub-machine
RunChild(m, child, nr_states) ==
    /\ Visit(m, "-", FALSE)
    /\ SetEngine(fpi_ssm_start_subsm(
                     fpi_ssm_new(Engine, child, nr_states), m, child))
    /\ UNCHANGED <<opened, activated, acts, seqnum, wire, hist, plan, faults,
                   calls, fd, xfer>>

m_next_state ==
    /\ ctl = "handler" /\ leaf = "next"
    /\ LET s == ssm["next"].cur_state
       IN  \/ /\ s = M_NEXT_D
              /\ \E sc \in Scripts(2, Budget) :
                    RunBlock("next", do_d(Dev(sc)), sc)
           \/ /\ s = M_NEXT_B
              /\ \E sc \in Scripts(9, Budget) :
                    RunBlock("next", do_b(Dev(sc)), sc)
           \/ /\ s = M_NEXT_E
              /\ \E sc \in Scripts(2, Budget) :
                    RunBlock("next", do_e(Dev(sc)), sc)

m_read_state ==
    /\ ctl = "handler" /\ leaf = "read"
    /\ LET s == ssm["read"].cur_state
       IN  \/ /\ s = M_READ_B
              /\ \E sc \in Scripts(9, Budget) :
                    RunBlock("read", do_b(Dev(sc)), sc)
           \/ /\ s = M_READ_2
              /\ \E sc \in Scripts(3, Budget) :
                    RunBlock("read", do_2(Dev(sc)), sc)

\* mutant of m_init_state: the two sub-machines in each other's place
m_init_state_swapped ==
    /\ ctl = "handler" /\ leaf = "init"
    /\ LET s == ssm["init"].cur_state
       IN  \/ /\ s = M_INIT_Q
              /\ \E sc \in Scripts(4, Budget) :
                    RunBlock("init", do_q(Dev(sc)), sc)
           \/ /\ s = M_INIT_READ
              /\ RunChild("init", "next", M_NEXT_NUM_STATES)
           \/ /\ s = M_INIT_NEXT
              /\ RunChild("init", "read", M_READ_NUM_STATES)

m_init_state ==
    /\ ctl = "handler" /\ leaf = "init"
    /\ LET s == ssm["init"].cur_state
       IN  \/ /\ s = M_INIT_Q
              /\ \E sc \in Scripts(4, Budget) :
                    RunBlock("init", do_q(Dev(sc)), sc)
           \/ /\ s = M_INIT_READ
              /\ RunChild("init", "read", M_READ_NUM_STATES)
           \/ /\ s = M_INIT_NEXT
              /\ RunChild("init", "next", M_NEXT_NUM_STATES)

----------------------------------------------------------------------------
(* Finger detection as built: the loop of start_finger_detection.  rr is   *)
(* never written (swap reads into a buffer of its own), so rr[0x0a] is an  *)
(* uninitialised byte: any value, at every test.  The submission of the    *)
(* asynchronous transfer follows an unconditional return.                  *)

\* polls: exchanges (or submissions) of this detection; first: which answer
\* was the first to say "finger present" (0: none yet); loops: Loop machines
\* started.  Of the asynchronous transfers: tallocs, how many were allocated
\* (the k-th is transfer k); cur, the one submitted or in its callback (0:
\* none); freed, the ones released, in order; done, the completions handled;
\* cb, what the last completion found: status, actual_length, data[0x0a]
NoFd == [polls |-> 0, sleeps |-> 0, first |-> 0, state |-> "off", loops |-> 0,
         tallocs |-> 0, cur |-> 0, freed |-> << >>, done |-> 0, cb |-> << >>]

\* returning to the event loop: from start_finger_detection into
\* m_init_complete, which frees the machine, and out of every frame below
ReturnFromInitComplete(T) ==
    Unwind(fpi_ssm_free([T EXCEPT !.ctl = "idle", !.leaf = "none"], "init"))

\* one iteration: usleep, swap, test.  resp is byte 0x0a of what the device
\* answered, rr what the test reads
start_finger_detection ==
    /\ ctl = "poll"
    /\ fd.polls < MaxPoll
    /\ \E sc \in Scripts(2, Budget), resp \in {0, FINGER_PRESENT},
          rr \in {0, FINGER_PRESENT} :
          LET D == swap(Dev(sc), <<0, 0, 0, 0, 22, 0>>)
              again == rr # 2
          IN  /\ SetDev(D)
              /\ faults' = faults + NFaults(sc)
              /\ fd' = [fd EXCEPT
                          !.sleeps = @ + 1,
                          !.polls = @ + 1,
                          !.first = IF @ = 0 /\ resp = FINGER_PRESENT
                                    THEN fd.polls + 1 ELSE @,
                          !.state = IF again THEN "polling" ELSE "exited"]
              /\ IF again
                 THEN UNCHANGED <<ssm, ctl, leaf, stack>>
                 ELSE SetEngine(ReturnFromInitComplete(Engine))
    /\ UNCHANGED <<opened, activated, acts, plan, visited, calls, xfer>>

\* the completion callback of the Init machine
m_init_complete ==
    /\ ctl = "complete" /\ leaf = "init"
    /\ calls' = Append(calls, <<"activate_complete", ssm["init"].error>>)
    /\ IF ssm["init"].error = 0
       THEN /\ fd' = [NoFd EXCEPT !.state = "polling"]
            /\ ctl' = "poll"
            /\ UNCHANGED <<ssm, leaf, stack>>
       ELSE /\ SetEngine(ReturnFromInitComplete(Engine))
            /\ UNCHANGED fd
    /\ UNCHANGED <<opened, activated, acts, seqnum, wire, hist, plan, faults,
                   visited, xfer>>

----------------------------------------------------------------------------
(* Finger detection, the asynchronous variant: the rest of                 *)
(* start_finger_detection, which the return above keeps the build from     *)
(* reaching, and the callback it registers.  It is the driver with the     *)
(* polling loop and its return taken out.                                  *)

m_loop_state ==
    /\ ctl = "handler" /\ leaf = "loop"
    /\ LET s == ssm["loop"].cur_state
       IN  \/ /\ s = M_LOOP_1
              /\ RunBlock("loop", do_1(Dev(<< >>)), << >>)
           \/ /\ s = M_LOOP_READ
              /\ RunChild("loop", "read", M_READ_NUM_STATES)
           \/ /\ s = M_LOOP_C
              /\ \E sc \in Scripts(20, Budget) :
                    RunBlock("loop", do_c(Dev(sc)), sc)
           \/ /\ s = M_LOOP_2
              /\ \E sc \in Scripts(3, Budget) :
                    RunBlock("loop", do_2(Dev(sc)), sc)
           \/ /\ s = M_LOOP_NEXT
              /\ RunChild("loop", "next", M_NEXT_NUM_STATES)

\* a transfer and its buffer are allocated and submitted; r is the result of
\* libusb_submit_transfer.  F and C are the detection and the collaborator
\* calls so far.
start_finger_detection_async(F, C, r) ==
    LET t == F.tallocs + 1
    IN  [fd    |-> [F EXCEPT !.polls = @ + 1,
                             !.tallocs = t,
                             !.cur = IF r < 0 THEN 0 ELSE t,
                             !.freed = IF r < 0 THEN Append(@, t) ELSE @,
                             !.state = IF r < 0 THEN "failed" ELSE "polling"],
         xfer  |-> IF r < 0 THEN "none" ELSE "pending",
         calls |-> IF r < 0 THEN Append(C, <<"session_error", r>>) ELSE C]

\* the completion callback of the Loop machine; control returns into
\* finger_detection_cb, which frees the transfer
m_loop_complete ==
    /\ ctl = "complete" /\ leaf = "loop"
    /\ SetEngine(Unwind(fpi_ssm_free(
                     [Engine EXCEPT !.ctl = "idle", !.leaf = "none"], "loop")))
    /\ xfer' = "none"
    /\ fd' = [fd EXCEPT !.cur = 0, !.freed = Append(@, fd.cur)]
    /\ UNCHANGED <<opened, activated, acts, seqnum, wire, hist, plan, faults,
                   visited, calls>>

\* the transfer completes: status, actual_length and data[0x0a] are inputs.
\* At out: the transfer and its buffer are released.
finger_detection_cb ==
    /\ ctl = "idle" /\ xfer = "pending"
    /\ \E status \in {"COMPLETED", "TIMED_OUT"}, actual_length \in {10, 11},
          byte \in {0, FINGER_PRESENT} :
          LET F == [fd EXCEPT !.done = @ + 1,
                              !.cb = <<status, actual_length, byte>>]
              out(G) == [G EXCEPT !.freed = Append(@, fd.cur)]
          IN  IF status # "COMPLETED"
              THEN /\ calls' = Append(calls, <<"session_error", -EIO>>)
                   /\ fd' = out([F EXCEPT !.state = "failed", !.cur = 0])
                   /\ xfer' = "none"
                   /\ UNCHANGED <<ssm, ctl, leaf, stack, visited>>
              ELSE IF 11 # actual_length
              THEN /\ calls' = Append(calls, <<"session_error", -EPROTO>>)
                   /\ fd' = out([F EXCEPT !.state = "failed", !.cur = 0])
                   /\ xfer' = "none"
                   /\ UNCHANGED <<ssm, ctl, leaf, stack, visited>>
              ELSE IF byte = 2
              THEN /\ calls' = Append(calls, <<"report_finger_status", 1>>)
                   /\ fd' = [F EXCEPT !.state = "detected", !.loops = @ + 1]
                   /\ xfer' = "completed"
                   /\ visited' = << >>
                   /\ SetEngine(fpi_ssm_start(
                           fpi_ssm_new(Engine, "loop", M_LOOP_NUM_STATES),
                           "loop"))
              ELSE /\ fd.polls < MaxPoll
                   /\ \E r \in {0, -1} :
                         LET S == start_finger_detection_async(F, calls, r)
                         IN  /\ fd' = out(S.fd)
                             /\ xfer' = S.xfer
                             /\ calls' = S.calls
                   /\ UNCHANGED <<ssm, ctl, leaf, stack, visited>>
    /\ UNCHANGED <<opened, activated, acts, seqnum, wire, hist, plan, faults>>

m_init_complete_async ==
    /\ ctl = "complete" /\ leaf = "init"
    /\ \E r \in {0, -1} :
          LET reported == Append(calls,
                                 <<"activate_complete", ssm["init"].error>>)
              S == start_finger_detection_async(NoFd, reported, r)
          IN  IF ssm["init"].error = 0
              THEN /\ fd' = S.fd
                   /\ xfer' = S.xfer
                   /\ calls' = S.calls
              ELSE /\ calls' = reported
                   /\ UNCHANGED <<fd, xfer>>
    /\ SetEngine(ReturnFromInitComplete(Engine))
    /\ UNCHANGED <<opened, activated, acts, seqnum, wire, hist, plan, faults,
                   visited>>

----------------------------------------------------------------------------
(* Driver entry points *)

\* the interface is claimed (r = 0): the open completes
dev_init ==
    /\ ctl = "closed"
    /\ opened' = TRUE
    /\ seqnum' = 0
    /\ ctl' = "idle"
    /\ plan' \in Plans
    /\ UNCHANGED <<activated, acts, ssm, leaf, stack, wire, hist, faults,
                   visited, calls, fd, xfer>>

\* mutant of dev_activate: the activation starts the counter over
dev_activate_resetting ==
    /\ ctl = "idle" /\ opened /\ ~activated /\ xfer = "none"
    /\ acts < plan.acts
    /\ activated' = TRUE
    /\ acts' = acts + 1
    /\ visited' = << >>
    /\ calls' = << >>
    /\ fd' = NoFd
    /\ seqnum' = 0
    /\ SetEngine(fpi_ssm_start(
                     fpi_ssm_new(Engine, "init", M_INIT_NUM_STATES), "init"))
    /\ UNCHANGED <<opened, wire, hist, plan, faults, xfer>>

\* the caller activates a device that is open and not active; the model
\* follows one asynchronous transfer at a time
dev_activate ==
    /\ ctl = "idle" /\ opened /\ ~activated /\ xfer = "none"
    /\ acts < plan.acts
    /\ activated' = TRUE
    /\ acts' = acts + 1
    /\ visited' = << >>
    /\ calls' = << >>
    /\ fd' = NoFd
    /\ SetEngine(fpi_ssm_start(
                     fpi_ssm_new(Engine, "init", M_INIT_NUM_STATES), "init"))
    /\ UNCHANGED <<opened, seqnum, wire, hist, plan, faults, xfer>>

dev_deactivate ==
    /\ ctl = "idle" /\ activated
    /\ activated' = FALSE
    /\ calls' = Append(calls, <<"deactivate_complete", 0>>)
    /\ UNCHANGED <<opened, acts, seqnum, ssm, ctl, leaf, stack, wire, hist,
                   plan, faults, visited, fd, xfer>>

InitState ==
    /\ opened = FALSE
    /\ activated = FALSE
    /\ acts = 0
    /\ seqnum = 0
    /\ ssm = [m \in Machines |-> NoSsm]
    /\ ctl = "closed"
    /\ leaf = "none"
    /\ stack = << >>
    /\ wire = << >>
    /\ hist = NoHist
    /\ plan = [faults |-> 0, acts |-> 0]
    /\ faults = 0
    /\ visited = << >>
    /\ calls = << >>
    /\ fd = NoFd
    /\ xfer = "none"

\* g_free(dev->priv): a new open starts over
dev_deinit ==
    /\ ctl = "idle" /\ opened /\ ~activated /\ xfer = "none"
    /\ opened' = FALSE
    /\ activated' = FALSE
    /\ acts' = 0
    /\ ssm' = [m \in Machines |-> NoSsm]
    /\ ctl' = "closed"
    /\ leaf' = "none"
    /\ stack' = << >>
    /\ wire' = << >>
    /\ hist' = NoHist
    /\ plan' = [faults |-> 0, acts |-> 0]
    /\ faults' = 0
    /\ visited' = << >>
    /\ calls' = << >>
    /\ fd' = NoFd
    /\ seqnum' = 0
    /\ UNCHANGED xfer

----------------------------------------------------------------------------
(* The driver as built *)

Init == InitState

Next ==
    \/ dev_init
    \/ dev_activate
    \/ m_init_state
    \/ m_read_state
    \/ m_next_state
    \/ m_init_complete
    \/ start_finger_detection
    \/ dev_deactivate
    \/ dev_deinit

Spec == Init /\ [][Next]_vars

(* The asynchronous variant *)

NextAsync ==
    \/ dev_init
    \/ dev_activate
    \/ m_init_state
    \/ m_read_state
    \/ m_next_state
    \/ m_init_complete_async
    \/ finger_detection_cb
    \/ m_loop_state
    \/ m_loop_complete
    \/ dev_deactivate
    \/ dev_deinit

SpecAsync == Init /\ [][NextAsync]_vars

\* the steps the driver takes by itself: handlers, completion callbacks and
\* the callback of the transfer.  The entry points are the caller's.
DriverStepAsync ==
    \/ m_init_state
    \/ m_read_state
    \/ m_next_state
    \/ m_loop_state
    \/ m_init_complete_async
    \/ m_loop_complete
    \/ finger_detection_cb

(* Progress of the driver as built.  m_init_complete is called by the       *)
(* engine as soon as the Init machine completes, and an iteration of the    *)
(* polling loop follows the one before it: these steps happen when they     *)
(* can.  Nothing obliges the caller to call an entry point.                 *)

Fairness ==
    /\ WF_vars(m_init_complete)
    /\ WF_vars(start_finger_detection)

SpecFair == Spec /\ Fairness

----------------------------------------------------------------------------
(* Properties *)

\* the counter as the call after call i of the last block found it
After(i) == IF i < Len(wire) THEN wire[i + 1].seq0 ELSE seqnum

\* the first two bytes of a frame stamped with n
Stamp(n) == <<n % 256, (n \div 256) % 256>>

Sends == {i \in DOMAIN wire : wire[i].fn = "send"}

Recvs == {i \in DOMAIN wire : wire[i].fn = "recv"}

IsPrefix(a, b) == Len(a) <= Len(b) /\ SubSeq(b, 1, Len(a)) = a

ActivateCompletes == {i \in DOMAIN calls : calls[i][1] = "activate_complete"}

SessionErrors == {i \in DOMAIN calls : calls[i][1] = "session_error"}

\* the handler invocations of an Init machine, in order, none with a
\* transport error
InitOrder ==
    <<<<"init", M_INIT_Q, "Q", FALSE>>,
      <<"init", M_INIT_READ, "-", FALSE>>,
      <<"read", M_READ_B, "B", FALSE>>,
      <<"read", M_READ_2, "2", FALSE>>,
      <<"init", M_INIT_NEXT, "-", FALSE>>,
      <<"next", M_NEXT_D, "D", FALSE>>,
      <<"next", M_NEXT_B, "B", FALSE>>,
      <<"next", M_NEXT_E, "E", FALSE>>>>

\* C1 as stated: in a session without transport faults, the frame sent by
\* exchange N+1 carries the bytes of N, the number of exchanges made before
\* it, and the counter is N+1 when that exchange is over.  The bulk loads of
\* blocks B and 2 break it: they advance the counter and send no frame.
C1_FramesStampedWithExchangeCount ==
    faults = 0 =>
        /\ \A i \in Sends :
              <<wire[i].data[1], wire[i].data[2]>> = Stamp(wire[i].nexch)
        /\ \A i \in Recvs : wire[i].ep = 1 => After(i) = wire[i].nexch + 1

\* C1 amended: the counter is the number of receives since open that did not
\* fail outright (in a session without faults: the exchanges plus the bulk
\* loads), and every frame sent carries the low and the high byte of that
\* number as it was when the frame was sent.
C1_FramesStampedWithReceiveCount ==
    /\ seqnum = hist.recvok
    /\ faults = 0 => seqnum = hist.exch + hist.loads
    /\ \A i \in Sends :
          /\ wire[i].seq0 = wire[i].nrecvok
          /\ <<wire[i].data[1], wire[i].data[2]>> = Stamp(wire[i].nrecvok)

\* C1 witness: a clean session has made bulk loads and sends a frame whose
\* high byte is 1 (256 receives or more since open).
C1_Witness ==
    /\ faults = 0
    /\ hist.loads > 0
    /\ \E i \in Sends : wire[i].data[2] = 1 /\ wire[i].nrecvok >= 256

\* C2: a send whose bulk write transferred fewer bytes than asked for returns
\* an error, -EIO when the write itself reported success, and leaves the
\* counter as it was.
C2_ShortWriteFailsAndKeepsCounter ==
    \A i \in Sends :
        wire[i].transferred < wire[i].len =>
            /\ wire[i].ret < 0
            /\ wire[i].r >= 0 => wire[i].ret = -EIO
            /\ After(i) = wire[i].seq0

\* C2 witness: a bulk write reported success and a short count.
C2_Witness ==
    \E i \in Sends : wire[i].r = 0 /\ wire[i].transferred < wire[i].len

\* C3: a receive returns 0 and adds exactly 1 to the counter if and only if
\* the bulk read succeeded, with whatever byte count, or timed out; on any
\* other error it returns that error and leaves the counter as it was.
C3_ReceiveCountsUnlessFailed ==
    \A i \in Recvs :
        IF wire[i].r >= 0 \/ wire[i].r = LIBUSB_ERROR_TIMEOUT
        THEN wire[i].ret = 0 /\ After(i) = wire[i].seq0 + 1
        ELSE wire[i].ret = wire[i].r /\ wire[i].ret # 0
             /\ After(i) = wire[i].seq0

\* C3 witness: a bulk read timed out and was counted.
C3_Witness ==
    \E i \in Recvs : wire[i].r = LIBUSB_ERROR_TIMEOUT /\ After(i) = wire[i].seq0 + 1

\* C4: with no transport fault, the Init machine runs Q, Read's B, Read's 2,
\* Next's D, Next's B, Next's E in that order, once each, and then
\* activate_complete is called once, with status 0.
C4_InitVisitsStatesInOrder ==
    faults = 0 =>
        /\ IsPrefix(visited, InitOrder)
        /\ Cardinality(ActivateCompletes) <= 1
        /\ ActivateCompletes # {} =>
              visited = InitOrder /\ calls[1] = <<"activate_complete", 0>>
        /\ visited = InitOrder /\ ctl # "complete" => ActivateCompletes # {}
        /\ ctl = "complete" => visited = InitOrder

\* C4 witness: a fault-free activation has run to its activate_complete.
C4_Witness ==
    faults = 0 /\ visited = InitOrder /\ ActivateCompletes # {}

\* C5 as stated: once a transport error has occurred in Read's B state, the
\* error slots of Read and Init are set, no later state runs (Read's 2,
\* Next's D, B, E) and activate_complete reports a non-zero status.
C5_ReadErrorAbortsInit ==
    \A k \in DOMAIN visited :
        visited[k] = <<"read", M_READ_B, "B", TRUE>> =>
            /\ ssm["read"].error # 0
            /\ ssm["init"].error # 0
            /\ k = Len(visited)
            /\ \A c \in ActivateCompletes : calls[c][2] # 0

\* C6 as stated: activate_complete gets Init's error slot, which is non-zero
\* whenever the transport failed during the activation; finger detection is
\* started if and only if the status is 0, and not before the call.
C6_FailedActivationReported ==
    /\ ActivateCompletes = {} => fd.state = "off"
    /\ \A c \in ActivateCompletes :
          /\ calls[c][2] = ssm["init"].error
          /\ (\E k \in DOMAIN visited : visited[k][4]) => calls[c][2] # 0
          /\ fd.state # "off" <=> calls[c][2] = 0

\* C6, the part of it the driver keeps: the status is Init's error slot, and
\* finger detection starts after the call and only on status 0.
C6_DetectionFollowsCompletion ==
    /\ ActivateCompletes = {} => fd.state = "off"
    /\ \A c \in ActivateCompletes :
          /\ calls[c][2] = ssm["init"].error
          /\ fd.state # "off" <=> calls[c][2] = 0

\* C7 as stated: when the polling loop is left, it has made exactly as many
\* exchanges as it took the device to answer "finger present" for the first
\* time, one sleep before each, and the Loop machine has been started.
C7_PollStopsAtFirstPresent ==
    fd.state = "exited" =>
        /\ fd.polls = fd.first
        /\ fd.sleeps = fd.polls
        /\ fd.loops = 1

\* C8 as stated: the polling loop is left only when an answer said "finger
\* present" or a transport error occurred; a transport error stops the loop
\* and is reported through session_error.
C8_PollStopsOnFingerOrError ==
    /\ fd.state = "exited" => fd.first # 0 \/ SessionErrors # {}
    /\ fd.polls > 0 /\ TransportError(wire) =>
          fd.state # "polling" /\ SessionErrors # {}

C10_DetectionStartsLoop ==
    fd.state = "exited" /\ fd.first = fd.polls =>
        /\ fd.loops = 1
        /\ ssm["loop"].alloc # "none"

\* a Loop machine has run to its end without error and is gone
LoopDone ==
    /\ fd.state = "detected"
    /\ ssm["loop"].alloc = "freed"
    /\ ssm["loop"].completed
    /\ ssm["loop"].error = 0

\* a finger detection is under way: the loop polls or a transfer is submitted
DetectionArmed == (ctl = "poll" /\ fd.state = "polling") \/ xfer = "pending"

Roots == {"init", "loop"}

\* the completion callback of machine m has been invoked and m is not freed
AwaitsFree(m) == ssm[m].cbs > 0 /\ ssm[m].alloc = "live"

\* C12, the part of it that no run breaks: a machine is freed at most once
\* and not before its completion callback was invoked, and the machine whose
\* handler or callback is about to run has not been freed.
C12_FreedOnceAfterCallback ==
    /\ \A m \in Roots :
          /\ ssm[m].frees <= 1
          /\ ssm[m].cbs <= 1
          /\ ssm[m].alloc = "freed" <=> ssm[m].frees = 1
          /\ ssm[m].frees = 1 => ssm[m].cbs = 1
    /\ ctl \in {"handler", "complete"} => ssm[leaf].alloc = "live"

AfterIn(w, sq, i) == IF i < Len(w) THEN w[i + 1].seq0 ELSE sq

\* the calls of block w took the counter from s0 to s1 in steps of +1, each
\* made by a receive
CountsUp(w, s0, s1) ==
    /\ w = << >> => s1 = s0
    /\ w # << >> => w[1].seq0 = s0
    /\ \A i \in DOMAIN w :
          LET d == AfterIn(w, s1, i) - w[i].seq0
          IN  d \in {0, 1} /\ (d = 1 => w[i].fn = "recv")

\* C13: the counter is 0 when the device has been opened and not activated
\* yet; while the device stays open, a step that makes no bulk transfer
\* (an activation, a deactivation, a completion callback, the start of a
\* sub-machine) leaves the counter as it is, and a step that makes bulk
\* transfers changes it by +1 steps only, each made by a receive, starting
\* from the value it found.
C13_CounterOnlyCountsUp ==
    /\ [](opened /\ acts = 0 => seqnum = 0)
    /\ [][opened /\ opened' =>
             /\ seqnum' >= seqnum
             /\ IF wire' = wire THEN seqnum' = seqnum
                ELSE CountsUp(wire', seqnum, seqnum')]_vars

\* C13 witness: the first block of a second activation has run, starting
\* from the counter the first activation left (16 receives or more) and
\* counting on from there.
C13_Witness ==
    /\ acts = 2
    /\ visited = <<<<"init", M_INIT_Q, "Q", FALSE>>>>
    /\ wire # << >>
    /\ wire[1].seq0 >= 16
    /\ seqnum = wire[1].seq0 + 2

\* the handler invocations of the Loop tree during which the transport failed
LoopFailures ==
    {k \in DOMAIN visited : fd.state = "detected" /\ visited[k][4]}

C14_CounterSurvivesLoopFailure ==
    LoopFailures # {} => seqnum = hist.recvok

\* a Loop iteration in which the transport failed has run to its end and no
\* session_error was reported
C14_FailedIterationRanOn ==
    /\ LoopFailures # {}
    /\ ctl = "idle"
    /\ Len(visited) = 10
    /\ SessionErrors = {}

\* the transfers released so far
Freed == {fd.freed[i] : i \in DOMAIN fd.freed}

\* every transfer allocated is the one under way or has been released, and
\* none was released twice
TransfersReleasedOnce ==
    /\ \A i, j \in DOMAIN fd.freed : i # j => fd.freed[i] # fd.freed[j]
    /\ Freed \cup (IF fd.cur = 0 THEN {} ELSE {fd.cur}) = 1 .. fd.tallocs
    /\ fd.cur \notin Freed
    /\ xfer = "none" <=> fd.cur = 0

\* a step in which finger_detection_cb handles a completion does what the
\* four cases of the callback say
CompletionCases ==
    fd'.done = fd.done + 1 =>
        LET status == fd'.cb[1]
            length == fd'.cb[2]
            byte   == fd'.cb[3]
            quiet  == /\ fd'.tallocs = fd.tallocs
                      /\ xfer' = "none"
                      /\ UNCHANGED <<ssm, ctl, leaf, stack>>
        IN  /\ xfer = "pending"
            /\ IF status # "COMPLETED"
               THEN calls' = Append(calls, <<"session_error", -EIO>>) /\ quiet
               ELSE IF length # 11
               THEN calls' = Append(calls, <<"session_error", -EPROTO>>)
                    /\ quiet
               ELSE IF byte = FINGER_PRESENT
               THEN /\ calls' = Append(calls, <<"report_finger_status", 1>>)
                    /\ fd'.tallocs = fd.tallocs
                    /\ ssm'["loop"].alloc = "live"
                    /\ ssm'["loop"].cur_state = M_LOOP_1
                    /\ ctl' = "handler" /\ leaf' = "loop"
               ELSE /\ fd'.tallocs = fd.tallocs + 1
                    /\ UNCHANGED <<ssm, ctl, leaf, stack>>
                    /\ \/ xfer' = "pending" /\ calls' = calls
                       \/ /\ xfer' = "none"
                          /\ Len(calls') = Len(calls) + 1
                          /\ calls'[Len(calls')][1] = "session_error"

\* C15, the part of it the asynchronous variant keeps: the four cases, and
\* every transfer released exactly once.
C15_CompletionCasesAndRelease ==
    [][CompletionCases]_vars /\ []TransfersReleasedOnce

Children == {"read", "next"}

\* the sub-machines that are running: started and not completed
Running(S) == {c \in Children : S[c].alloc = "live" /\ ~S[c].completed}

\* C16: in the Init and Loop trees at most one sub-machine runs at a time;
\* while it runs, its parent is a live machine that has not completed and
\* whose cursor stays where it was when the child was started (Read at state
\* 1, Next at the parent's last state), and the child is the one node whose
\* handler runs next; when the child completes without error, the parent's
\* cursor has advanced by exactly one.
C16_SingleActiveLeaf ==
    /\ [](/\ Cardinality(Running(ssm)) <= 1
          /\ \A c \in Running(ssm) :
                LET p == ssm[c].parentsm
                IN  /\ p \in Roots
                    /\ ssm[p].alloc = "live" /\ ~ssm[p].completed
                    /\ ssm[p].cur_state < ssm[p].nr_states
                    /\ ctl = "handler" /\ leaf = c
          /\ ctl \in {"handler", "complete"} =>
                /\ leaf \in Machines
                /\ ssm[leaf].alloc = "live"
                /\ leaf \in Roots => Running(ssm) = {})
    /\ [][\A c \in Running(ssm) :
             LET p == ssm[c].parentsm
             IN  IF c \in Running(ssm')
                 THEN ssm'[p].cur_state = ssm[p].cur_state
                 ELSE ssm'[c].error = 0 =>
                         ssm'[p].cur_state = ssm[p].cur_state + 1]_vars
    /\ [][\A c \in Running(ssm') \ Running(ssm) :
             LET p == ssm'[c].parentsm
             IN  /\ leaf = p /\ ctl = "handler"
                 /\ ssm'[p].cur_state = ssm[p].cur_state]_vars

\* C16 witness: the Next child of a Loop machine has run its states D and B
\* and is about to run E, with Loop waiting at its last state.
C16_Witness ==
    /\ Running(ssm) = {"next"}
    /\ ssm["next"].parentsm = "loop"
    /\ ssm["next"].cur_state = M_NEXT_E
    /\ ssm["loop"].cur_state = M_LOOP_NEXT
    /\ leaf = "next"

\* the opcode of frame i of the last block (bytes 4 and 5 of the frame)
Opcode(i) == wire[i].data[5] + 256 * wire[i].data[6]

\* Init's Q state has just run
QRan == visited # << >> /\ Len(visited) = 1 /\ visited[1][3] = "Q"

\* C17 as stated: Init's Q state makes exactly three exchanges, GetVersion,
\* GetVersion, SetParam(0x55, 0x08), in this order, before Read starts.
C17_QIssuesThreeExchanges ==
    QRan =>
        /\ Len(wire) = 6
        /\ \A i \in {1, 3, 5} : wire[i].fn = "send" /\ wire[i].ep = 1
        /\ \A i \in {2, 4, 6} : wire[i].fn = "recv" /\ wire[i].ep = 1
        /\ Opcode(1) = 2 /\ Opcode(3) = 2 /\ Opcode(5) = 5
        /\ SubSeq(wire[5].data, 7, 10) = <<85, 0, 8, 0>>

\* what Init's Q state does: two exchanges, GetVersion and
\* SetParam(0x55, 0x08)
C17_QIssuesTwoExchanges ==
    QRan =>
        /\ Len(wire) = 4
        /\ \A i \in {1, 3} : wire[i].fn = "send" /\ wire[i].ep = 1
        /\ \A i \in {2, 4} : wire[i].fn = "recv" /\ wire[i].ep = 1
        /\ Opcode(1) = 2 /\ Opcode(3) = 5
        /\ SubSeq(wire[3].data, 7, 10) = <<85, 0, 8, 0>>

\* the bulk reads of the last block that returned fewer bytes than asked
\* for and no error
ShortResponses ==
    {i \in Recvs : wire[i].r = 0 /\ wire[i].transferred < wire[i].len}

\* C18: a short response is no error.  The receive returns 0; and while
\* short responses are all that went wrong since open, no machine's error
\* slot is set, the states of Init, Read and Next run in order, each once,
\* none seeing a transport error, and activate_complete is called once, with
\* status 0.
C18_ShortResponseTolerated ==
    /\ \A i \in ShortResponses : wire[i].ret = 0
    /\ faults = hist.shortresp =>
          /\ \A m \in Machines : ssm[m].error = 0
          /\ IsPrefix(visited, InitOrder)
          /\ ctl = "complete" => visited = InitOrder
          /\ Cardinality(ActivateCompletes) <= 1
          /\ ActivateCompletes # {} =>
                visited = InitOrder /\ calls[1] = <<"activate_complete", 0>>
          /\ visited = InitOrder /\ ctl # "complete" =>
                ActivateCompletes # {}

\* C18 witness: an activation in which a response was short, and nothing
\* else went wrong, has run all its states and reported success.
C18_Witness ==
    /\ hist.shortresp = 1 /\ faults = 1
    /\ acts = 1 /\ fd.polls = 0
    /\ visited = InitOrder
    /\ calls = <<<<"activate_complete", 0>>>>

\* the receive at i did not fail outright
Counted(i) == wire[i].r >= 0 \/ wire[i].r = LIBUSB_ERROR_TIMEOUT

\* C19: every transmit is on OUT endpoint 1 and is followed, whatever it
\* returned, by one receive on IN endpoint 1, and every receive on IN
\* endpoint 1 follows a transmit; the exchange leaves the counter one above
\* the frame's stamp if its receive did not fail outright and at the stamp
\* otherwise; and no error of either reaches the handler: the handler in
\* whose block the transport failed has advanced its machine, whose error
\* slot is 0.
C19_ExchangeReceivesAfterAnyTransmit ==
    /\ \A i \in Sends :
          /\ wire[i].ep = 1
          /\ i + 1 \in Recvs
          /\ wire[i + 1].ep = 1
          /\ After(i) = wire[i].seq0
          /\ After(i + 1) = IF Counted(i + 1) THEN wire[i].seq0 + 1
                            ELSE wire[i].seq0
    /\ \A i \in Recvs : wire[i].ep = 1 => i - 1 \in Sends
    /\ \A k \in DOMAIN visited :
          visited[k][4] =>
              /\ ssm[visited[k][1]].cur_state > visited[k][2]
              /\ ssm[visited[k][1]].error = 0

\* C19 witness: a handler has run a block in which a transmit failed and the
\* receive after it was made and counted.
C19_Witness ==
    /\ visited # << >> /\ visited[Len(visited)][4]
    /\ \E i \in Sends :
          /\ wire[i].ret # 0
          /\ i + 1 \in Recvs
          /\ After(i + 1) = wire[i].seq0 + 1

\* no receive has failed outright since open: all that were made counted
NoReceiveFailed == hist.exch + hist.loads = hist.recvok

\* the Init machine has completed, m_init_complete has not run yet
BeforeActivateComplete == ctl = "complete" /\ leaf = "init"

====
